---------------------------- MODULE Spec2Model ----------------------------
(***************************************************************************)
(* Model of the fraud-detection HTTP service of src/src/index.ts: the      *)
(* module-level startup (scaler load, route registration, listen), the     *)
(* three route handlers, the zod query schema, the normaliser, the call    *)
(* to the inference backend and Express's dispatch of next(error).         *)
(*                                                                         *)
(* JavaScript numbers are modelled as exact rationals n/d extended with    *)
(* NaN, +Infinity, -Infinity and undefined; binary rounding of IEEE        *)
(* doubles is not modelled.  Query-string values are sequences of          *)
(* one-character strings, so that Number(string) is a real parse.          *)
(***************************************************************************)
EXTENDS Integers, Sequences, FiniteSets, TLC

(***************************************************************************)
(* Bounds of the model.                                                    *)
(***************************************************************************)
MaxReq == 2

(***************************************************************************)
(* JavaScript values.  Every value is a record with the same three fields. *)
(***************************************************************************)
Abs(i) == IF i < 0 THEN -i ELSE i

RECURSIVE Gcd(_, _)
Gcd(a, b) == IF b = 0 THEN a ELSE Gcd(b, a % b)

\* The rational n/d (d # 0) in lowest terms with a positive denominator.
Rat(n, d) ==
    LET g == Gcd(Abs(n), Abs(d))
        s == IF d < 0 THEN -1 ELSE 1
    IN  [k |-> "num", n |-> (s * n) \div g, d |-> (s * d) \div g]

Int2Num(i)  == Rat(i, 1)
NaN         == [k |-> "NaN", n |-> 0, d |-> 1]
PosInf      == [k |-> "Infinity", n |-> 1, d |-> 1]
NegInf      == [k |-> "Infinity", n |-> -1, d |-> 1]
Undefined   == [k |-> "undefined", n |-> 0, d |-> 1]

IsNum(v) == v.k = "num"

\* a - b on JavaScript numbers; an undefined or NaN operand gives NaN.
\* (The operands that occur are finite numbers, NaN or undefined.)
Sub(a, b) ==
    IF IsNum(a) /\ IsNum(b) THEN Rat(a.n * b.d - b.n * a.d, a.d * b.d) ELSE NaN

\* a / b on JavaScript numbers: x/0 is +-Infinity, 0/0 is NaN.
Div(a, b) ==
    IF IsNum(a) /\ IsNum(b)
    THEN IF b.n = 0
         THEN IF a.n = 0 THEN NaN ELSE IF a.n > 0 THEN PosInf ELSE NegInf
         ELSE Rat(a.n * b.d, a.d * b.n)
    ELSE NaN

\* Variant of Gt: the comparison written as >=.
Ge(a, b) == IsNum(a) /\ IsNum(b) /\ a.n * b.d >= b.n * a.d

\* a > b on JavaScript values; any comparison with NaN or undefined is false.
Gt(a, b) == IsNum(a) /\ IsNum(b) /\ a.n * b.d > b.n * a.d

(***************************************************************************)
(* Number(s) for a string s, as the zod transforms of the schema apply it. *)
(* Covers the StringToNumber grammar over digits, ".", sign and blanks:    *)
(* surrounding blanks are trimmed, the empty string is 0, anything that is *)
(* not an optionally signed decimal literal is NaN.  (Exponents, hex and   *)
(* "Infinity" are outside the alphabet of the modelled inputs.)            *)
(***************************************************************************)
Digits == <<"0", "1", "2", "3", "4", "5", "6", "7", "8", "9">>

IsDigit(c) == \E i \in 1..10 : Digits[i] = c

DigitVal(c) == (CHOOSE i \in 1..10 : Digits[i] = c) - 1

\* s without its leading and trailing blanks.
Trim(s) ==
    LET solid == {i \in 1..Len(s) : s[i] # " "}
    IN  IF solid = {} THEN <<>>
        ELSE SubSeq(s, CHOOSE i \in solid : \A j \in solid : i <= j,
                       CHOOSE i \in solid : \A j \in solid : i >= j)

Pow10(e) == LET p[i \in 0..e] == IF i = 0 THEN 1 ELSE 10 * p[i - 1] IN p[e]

\* The value of a sequence of digits read as a decimal integer.
DigitsVal(s) ==
    LET v[i \in 0..Len(s)] == IF i = 0 THEN 0 ELSE 10 * v[i - 1] + DigitVal(s[i])
    IN  v[Len(s)]

AllDigits(s) == \A i \in 1..Len(s) : IsDigit(s[i])

\* An unsigned decimal literal: digits [ "." digits ], with at least one digit.
UnsignedDecimal(s) ==
    LET dots == {i \in 1..Len(s) : s[i] = "."}
    IN  IF dots = {}
        THEN IF s # <<>> /\ AllDigits(s) THEN Int2Num(DigitsVal(s)) ELSE NaN
        ELSE LET p    == CHOOSE i \in dots : \A j \in dots : i <= j
                 ip   == SubSeq(s, 1, p - 1)
                 fp   == SubSeq(s, p + 1, Len(s))
             IN  IF AllDigits(ip) /\ AllDigits(fp) /\ Len(ip) + Len(fp) > 0
                 THEN Rat(DigitsVal(ip) * Pow10(Len(fp)) + DigitsVal(fp),
                          Pow10(Len(fp)))
                 ELSE NaN

Neg(v) == IF IsNum(v) THEN Rat(-v.n, v.d) ELSE v

\* The number a trimmed string denotes.
StringNumericLiteral(t) ==
    IF t = <<>> THEN Int2Num(0)
    ELSE IF Head(t) = "-" THEN Neg(UnsignedDecimal(Tail(t)))
    ELSE IF Head(t) = "+" THEN UnsignedDecimal(Tail(t))
    ELSE UnsignedDecimal(t)

Number(s) == CHOOSE v \in {StringNumericLiteral(t) : t \in {Trim(s)}} : TRUE

(***************************************************************************)
(* State.                                                                  *)
(*   scalerFile  the artifact src/scaler.json as found on disk at startup  *)
(*   env         process.env: FRAUD_MODEL_URL, FRAUD_THRESHOLD, NODE_ENV   *)
(*   httpsBound  whether the identifier `https` of line 152 resolves; the  *)
(*               file has no import for it, so only the runtime decides    *)
(*   axiosStatus whether the installed axios copies a reply's status onto  *)
(*               the error it rejects with (newer versions do)             *)
(*   proc        "boot", "serving" or "crashed"                            *)
(*   scalerData  the module-level constant of line 12                      *)
(*   pc, route, query, sent, reply, resp                                   *)
(*               one entry per request slot: where its handler is, the     *)
(*               path and query it came with, the axios.post calls it has  *)
(*               made, the settlement of its awaited call, its response    *)
(***************************************************************************)
VARIABLES scalerFile, env, httpsBound, axiosStatus, proc, scalerData,
          pc, route, query, sent, reply, resp

vars == <<scalerFile, env, httpsBound, axiosStatus, proc, scalerData,
          pc, route, query, sent, reply, resp>>

Slots == 1..MaxReq

(***************************************************************************)
(* The scaler artifact and JSON.parse(fs.readFileSync(...)).               *)
(***************************************************************************)
NumSeq(pairs) == [i \in 1..Len(pairs) |-> Rat(pairs[i][1], pairs[i][2])]

ScalerJson(hasMean, mean, hasScale, scale) ==
    [hasMean |-> hasMean, mean |-> mean, hasScale |-> hasScale, scale |-> scale]

NoScalerData == ScalerJson(FALSE, <<>>, FALSE, <<>>)

Artifact(exists, parses, json) ==
    [exists |-> exists, parses |-> parses, json |-> json]

GoodMean  == NumSeq(<< <<5, 1>>, <<1, 1>>, <<1, 2>>, <<1, 2>>, <<1, 2>> >>)
GoodScale == NumSeq(<< <<2, 1>>, <<1, 2>>, <<1, 2>>, <<1, 2>>, <<1, 2>> >>)

MissingFile   == Artifact(FALSE, FALSE, NoScalerData)
MalformedFile == Artifact(TRUE, FALSE, NoScalerData)
GoodFile      == Artifact(TRUE, TRUE, ScalerJson(TRUE, GoodMean, TRUE, GoodScale))
LongFile      ==
    Artifact(TRUE, TRUE, ScalerJson(TRUE, Append(GoodMean, Rat(0, 1)),
                                    TRUE, Append(GoodScale, Rat(1, 1))))
ShortMeanFile ==
    Artifact(TRUE, TRUE, ScalerJson(TRUE, SubSeq(GoodMean, 1, 4), TRUE, GoodScale))
ShortScaleFile ==
    Artifact(TRUE, TRUE, ScalerJson(TRUE, GoodMean, TRUE, SubSeq(GoodScale, 1, 4)))
ZeroScaleFile ==
    Artifact(TRUE, TRUE,
             ScalerJson(TRUE, GoodMean, TRUE, [GoodScale EXCEPT ![3] = Rat(0, 1)]))
NoMeanFile    == Artifact(TRUE, TRUE, ScalerJson(FALSE, <<>>, TRUE, GoodScale))

ScalerArtifacts ==
    {MissingFile, MalformedFile, GoodFile, LongFile, ShortMeanFile,
     ShortScaleFile, ZeroScaleFile, NoMeanFile}

\* Line 12: readFileSync throws on a missing file, JSON.parse on malformed text.
LoadThrows(file) == ~file.exists \/ ~file.parses

(***************************************************************************)
(* process.env.                                                            *)
(***************************************************************************)
EnvVar(set, s) == [set |-> set, s |-> s]

Unset == EnvVar(FALSE, <<>>)

\* JavaScript `v || dflt` on an environment variable: undefined and "" are falsy.
Falsy(v) == ~v.set \/ v.s = <<>>

Environment(url, thr, nodeEnv) ==
    [FRAUD_MODEL_URL |-> url, FRAUD_THRESHOLD |-> thr, NODE_ENV |-> nodeEnv]

ModelUrl   == EnvVar(TRUE, <<"https://model/v2/infer">>)
Production == EnvVar(TRUE, <<"production">>)

(***************************************************************************)
(* The query of a request: each parameter is absent, a string, or an array *)
(* (a repeated parameter, as Express's query parser delivers it).          *)
(***************************************************************************)
Absent   == [t |-> "undefined", s |-> <<>>]
Str(s)   == [t |-> "string", s |-> s]
Repeated == [t |-> "array", s |-> <<>>]

Query(distance, ratio, pin, chip, online) ==
    [distance |-> distance, ratio_to_median |-> ratio, pin |-> pin,
     chip |-> chip, online |-> online]

NoQuery == Query(Absent, Absent, Absent, Absent, Absent)

(***************************************************************************)
(* QuerySchema (lines 15-21).  z.string() raises one issue for a value     *)
(* that is not a string and stops there; otherwise transform(Number) runs, *)
(* and for pin, chip and online the refinement raises one issue unless the *)
(* number is 0 or 1.  z.object gathers the issues of all keys.             *)
(***************************************************************************)
Issue(code, path) == [code |-> code, path |-> path]

NoIssue == Issue("none", "")

\* z.string().transform(Number)
StringToNumber(path, v) ==
    IF v.t # "string"
    THEN [issue |-> Issue("invalid_type", path), value |-> NaN]
    ELSE [issue |-> NoIssue, value |-> Number(v.s)]

\* z.string().transform(Number).refine(val => val === 0 || val === 1)
Refine01(path, inner) ==
    IF inner.issue # NoIssue THEN inner
    ELSE IF inner.value = Int2Num(0) \/ inner.value = Int2Num(1) THEN inner
    ELSE [issue |-> Issue("custom", path), value |-> inner.value]

StringToBinary(path, v) ==
    CHOOSE out \in {Refine01(path, inner) : inner \in {StringToNumber(path, v)}} : TRUE

\* z.object over the outcomes of its five keys: the issues of all of them, and
\* the transformed values.
ZodObject(fields) ==
    LET bad == SelectSeq(fields, LAMBDA f : f.issue # NoIssue)
    IN  [success |-> bad = <<>>,
         errors  |-> [i \in 1..Len(bad) |-> bad[i].issue],
         data    |-> [distance        |-> fields[1].value,
                      ratio_to_median |-> fields[2].value,
                      pin             |-> fields[3].value,
                      chip            |-> fields[4].value,
                      online          |-> fields[5].value]]

\* QuerySchema.parse(req.query): the parsed data, or the ZodError's issues.
QuerySchemaParse(q) ==
    CHOOSE out \in
        {ZodObject(fields) :
            fields \in {<< StringToNumber("distance", q.distance),
                           StringToNumber("ratio_to_median", q.ratio_to_median),
                           StringToBinary("pin", q.pin),
                           StringToBinary("chip", q.chip),
                           StringToBinary("online", q.online) >>}} : TRUE

(***************************************************************************)
(* normalizeData (lines 123-127).  An index past the end of an array reads *)
(* undefined; reading an index of a missing mean or scale throws.          *)
(***************************************************************************)
At(seq, i) == IF i \in DOMAIN seq THEN seq[i] ELSE Undefined

NormalizeWith(sd, data) ==
    [index \in 1..Len(data) |->
        Div(Sub(data[index], At(sd.mean, index)), At(sd.scale, index))]

normalizeData(data) == NormalizeWith(scalerData, data)

NormalizeThrows == ~scalerData.hasMean \/ ~scalerData.hasScale

(***************************************************************************)
(* Responses and thrown errors.                                            *)
(***************************************************************************)
Response(status, ctype, body) == [status |-> status, ctype |-> ctype, body |-> body]

NoResponse == Response(0, "none", [none |-> TRUE])

\* res.json(body) / res.status(s).json(body)
Json(status, body) == Response(status, "json", body)

\* A thrown error: its class and, when it has one, its numeric `status` property.
Error(name, status) == [name |-> name, status |-> status]

ZodError(issues) == [name |-> "ZodError", status |-> 0, errors |-> issues]

(***************************************************************************)
(* Express dispatch.  The layers of the application in the order lines     *)
(* 114-186 register them; next(err) from a layer goes to the first         *)
(* error-handling layer (a handler of four parameters) registered AFTER    *)
(* it, and to Express's final handler when there is none.                  *)
(***************************************************************************)
Layer(name, arity) == [name |-> name, arity |-> arity]

Stack ==
    << Layer("errorHandler", 4),   \* line 114
       Layer("/docs", 3),          \* line 120
       Layer("/health", 2),        \* line 130
       Layer("/predict", 3),       \* line 135
       Layer("/", 2) >>            \* line 182

LayerOf(name) == CHOOSE i \in 1..Len(Stack) : Stack[i].name = name

\* Lines 114-117.
ErrorMiddleware(err) == Json(500, [error |-> "Internal server error"])

\* Express's final handler: the error's own status when it is a 4xx or 5xx,
\* else 500; an HTML page holding the stack trace unless NODE_ENV is
\* "production", where it holds the status text only.
FinalHandler(err) ==
    Response(IF err.status >= 400 /\ err.status < 600 THEN err.status ELSE 500,
             "html",
             [pre |-> IF env.NODE_ENV = Production THEN "status text"
                      ELSE "stack trace"])

NextError(from, err) ==
    LET later == {j \in (from + 1)..Len(Stack) : Stack[j].arity = 4}
    IN  IF later = {} THEN FinalHandler(err) ELSE ErrorMiddleware(err)

(***************************************************************************)
(* The /predict handler (lines 135-179).                                   *)
(***************************************************************************)
\* Lines 172-178: the catch block.
PredictCatch(error) ==
    IF error.name = "ZodError"
    THEN Json(400, [error |-> "Invalid input parameters", details |-> error.errors])
    ELSE NextError(LayerOf("/predict"), error)

\* Variant of RawData: the first two features in the wrong order.
RawDataSwapped(validatedData) ==
    << validatedData.ratio_to_median, validatedData.distance,
       validatedData.pin, validatedData.chip, validatedData.online >>

\* Lines 139-145.
RawData(validatedData) ==
    << validatedData.distance, validatedData.ratio_to_median,
       validatedData.pin, validatedData.chip, validatedData.online >>

\* Lines 155-163: the arguments of axios.post.
InferenceRequest(normalizedData) ==
    [url  |-> IF Falsy(env.FRAUD_MODEL_URL) THEN <<>> ELSE env.FRAUD_MODEL_URL.s,
     body |-> [inputs |-> << [name     |-> "dense_input",
                              shape    |-> <<1, 5>>,
                              datatype |-> "FP32",
                              data     |-> normalizedData] >>]]

\* Line 166.
DefaultThreshold == Rat(95, 100)

Threshold ==
    IF Falsy(env.FRAUD_THRESHOLD) THEN DefaultThreshold
    ELSE Number(env.FRAUD_THRESHOLD.s)

(***************************************************************************)
(* What the awaited axios.post settles with: a network failure (also a     *)
(* refused connection or an invalid URL), or an HTTP reply with a status   *)
(* and a parsed body.  axios rejects on every status outside 200..299.     *)
(***************************************************************************)
Output(hasData, data) == [hasData |-> hasData, data |-> data]

Body(hasOutputs, outputs) == [hasOutputs |-> hasOutputs, outputs |-> outputs]

NoBody == Body(FALSE, <<>>)

Settlement(kind, status, body) == [kind |-> kind, status |-> status, body |-> body]

NotSettled   == Settlement("pending", 0, NoBody)
NetworkError == Settlement("network", 0, NoBody)
HttpReply(status, body) == Settlement("http", status, body)

Rejected(rep) == rep.kind # "http" \/ rep.status < 200 \/ rep.status > 299

\* Line 165: response.data.outputs[0].data[0] throws a TypeError when
\* outputs, outputs[0] or outputs[0].data is undefined.
ExtractThrows(body) ==
    \/ ~body.hasOutputs
    \/ body.outputs = <<>>
    \/ ~body.outputs[1].hasData

fraudProbability(body) == At(body.outputs[1].data, 1)

\* Lines 168-171: JSON.stringify leaves out a property whose value is undefined.
PredictionResult(p) ==
    IF p = Undefined
    THEN [is_fraud |-> Gt(p, Threshold)]
    ELSE [is_fraud |-> Gt(p, Threshold), fraud_probability |-> p]

\* Lines 165-178: the handler from the settlement of the await to its response.
PredictContinue(rep) ==
    IF Rejected(rep)
    THEN PredictCatch(Error("AxiosError", IF axiosStatus THEN rep.status ELSE 0))
    ELSE IF ExtractThrows(rep.body)
    THEN PredictCatch(Error("TypeError", 0))
    ELSE Json(200, PredictionResult(fraudProbability(rep.body)))

(***************************************************************************)
(* Actions.                                                                *)
(***************************************************************************)
Finish(r, path, q, response) ==
    /\ pc'    = [pc EXCEPT ![r] = "done"]
    /\ route' = [route EXCEPT ![r] = path]
    /\ query' = [query EXCEPT ![r] = q]
    /\ resp'  = [resp EXCEPT ![r] = response]

\* Lines 8-191, the module body: load the scaler, register the layers, listen.
Startup ==
    /\ proc = "boot"
    /\ IF LoadThrows(scalerFile)
       THEN proc' = "crashed" /\ UNCHANGED scalerData
       ELSE proc' = "serving" /\ scalerData' = scalerFile.json
    /\ UNCHANGED <<scalerFile, env, httpsBound, axiosStatus, pc, route, query, sent, reply, resp>>

\* Variant of Accepts: requests are handled one at a time, a suspended
\* handler keeping the next request from being taken.
AcceptsSerialized(r) ==
    proc = "serving" /\ pc[r] = "idle" /\ \A o \in Slots : pc[o] # "await"

\* The server takes a request whenever it is listening: handlers are
\* callbacks of the event loop, and a suspended one holds nothing.
Accepts(r) == proc = "serving" /\ pc[r] = "idle"

\* Lines 182-186.
Root(r) ==
    /\ Accepts(r)
    /\ Finish(r, "/", NoQuery,
              Json(200, [message |-> "Welcome to Fraud Detection API. Visit /docs for Swagger documentation"]))
    /\ UNCHANGED <<scalerFile, env, httpsBound, axiosStatus, proc, scalerData, sent, reply>>

\* Variant of Health: a deep check that reports the backend's configuration.
HealthDeep(r) ==
    /\ Accepts(r)
    /\ Finish(r, "/health", NoQuery,
              IF Falsy(env.FRAUD_MODEL_URL)
              THEN Json(503, [status |-> "unhealthy"])
              ELSE Json(200, [status |-> "healthy"]))
    /\ UNCHANGED <<scalerFile, env, httpsBound, axiosStatus, proc, scalerData, sent, reply>>

\* Lines 130-132.
Health(r) ==
    /\ Accepts(r)
    /\ Finish(r, "/health", NoQuery, Json(200, [status |-> "healthy"]))
    /\ UNCHANGED <<scalerFile, env, httpsBound, axiosStatus, proc, scalerData, sent, reply>>

\* Lines 139-163 and 172-178: the handler from the outcome of the schema to its
\* await, or to its response when something throws before the await.  `calls`
\* are the axios.post calls it makes, `response` what it sends when it does
\* not suspend.
PredictValidated(parsed) ==
    IF ~parsed.success
    THEN [suspends |-> FALSE, calls |-> <<>>,
          response |-> PredictCatch(ZodError(parsed.errors))]
    ELSE IF NormalizeThrows
    THEN [suspends |-> FALSE, calls |-> <<>>,
          response |-> PredictCatch(Error("TypeError", 0))]
    ELSE IF ~httpsBound
    THEN [suspends |-> FALSE, calls |-> <<>>,
          response |-> PredictCatch(Error("ReferenceError", 0))]
    ELSE [suspends |-> TRUE,
          calls    |-> <<InferenceRequest(normalizeData(RawData(parsed.data)))>>,
          response |-> NoResponse]

\* Variant of PredictBegin: the backend is called with whatever the schema
\* produced, and the outcome of the validation is looked at only afterwards.
PredictBeginCallFirst(q) ==
    [suspends |-> TRUE,
     calls    |-> <<InferenceRequest(NormalizeWith(scalerData,
                                                   RawData(QuerySchemaParse(q).data)))>>,
     response |-> NoResponse]

\* Lines 135-163 and 172-178: the handler from the request to its await.
PredictBegin(q) ==
    CHOOSE out \in {PredictValidated(parsed) : parsed \in {QuerySchemaParse(q)}} : TRUE

PredictStart(r, q) ==
    /\ Accepts(r)
    /\ \E out \in {PredictBegin(q)} :
          /\ pc'    = [pc EXCEPT ![r] = IF out.suspends THEN "await" ELSE "done"]
          /\ sent'  = [sent EXCEPT ![r] = @ \o out.calls]
          /\ resp'  = [resp EXCEPT ![r] = out.response]
    /\ route' = [route EXCEPT ![r] = "/predict"]
    /\ query' = [query EXCEPT ![r] = q]
    /\ UNCHANGED <<scalerFile, env, httpsBound, axiosStatus, proc, scalerData, reply>>

\* Variant of PredictResume: a rejected call is issued once more.
PredictResumeRetry(r, rep) ==
    /\ pc[r] = "await"
    /\ sent[r][Len(sent[r])].url = <<>> => rep = NetworkError
    /\ IF Rejected(rep) /\ Len(sent[r]) < 2
       THEN /\ sent' = [sent EXCEPT ![r] = Append(@, @[Len(@)])]
            /\ UNCHANGED <<pc, reply, resp>>
       ELSE /\ pc'    = [pc EXCEPT ![r] = "done"]
            /\ reply' = [reply EXCEPT ![r] = rep]
            /\ resp'  = [resp EXCEPT ![r] = PredictContinue(rep)]
            /\ UNCHANGED sent
    /\ UNCHANGED <<scalerFile, env, httpsBound, axiosStatus, proc, scalerData, route, query>>

\* Lines 155-178: the awaited call settles with rep and the handler runs on.
PredictResume(r, rep) ==
    /\ pc[r] = "await"
    /\ sent[r][Len(sent[r])].url = <<>> => rep = NetworkError
    /\ pc'    = [pc EXCEPT ![r] = "done"]
    /\ reply' = [reply EXCEPT ![r] = rep]
    /\ resp'  = [resp EXCEPT ![r] = PredictContinue(rep)]
    /\ UNCHANGED <<scalerFile, env, httpsBound, axiosStatus, proc, scalerData, route, query, sent>>

(***************************************************************************)
(* Inputs.                                                                 *)
(***************************************************************************)
Probabilities == {Rat(94, 100), Rat(95, 100), Rat(97, 100)}

Bodies ==
    {Body(FALSE, <<>>), Body(TRUE, <<>>), Body(TRUE, <<Output(FALSE, <<>>)>>),
     Body(TRUE, <<Output(TRUE, <<>>)>>)}
    \cup {Body(TRUE, <<Output(TRUE, <<p>>)>>) : p \in Probabilities}
    \cup {Body(TRUE, <<Output(TRUE, <<Rat(97, 100), Rat(3, 100)>>),
                       Output(TRUE, <<Rat(1, 100)>>)>>)}

Settlements ==
    {NetworkError} \cup {HttpReply(200, b) : b \in Bodies}
    \cup {HttpReply(s, NoBody) : s \in {404, 503}}

Thresholds ==
    {Unset, EnvVar(TRUE, <<>>), EnvVar(TRUE, <<"0", ".", "9", "7">>),
     EnvVar(TRUE, <<"h", "i", "g", "h">>)}

DistanceValues == {Absent, Str(<<"1", "0">>), Str(<<"a", "b", "c">>)}
RatioValues    == {Str(<<"1", ".", "2">>), Str(<<"1", ",", "2">>)}
PinValues      == {Absent, Str(<<"0">>), Str(<<"1">>), Str(<<"2">>), Str(<<>>)}
ChipValues     == {Str(<<"1">>), Str(<<"0", ".", "5">>), Str(<<"-", "1">>)}
OnlineValues   == {Repeated, Str(<<"0">>), Str(<<"y", "e", "s">>)}

Queries ==
    {Query(d, m, p, c, o) : d \in DistanceValues, m \in RatioValues,
                            p \in PinValues, c \in ChipValues, o \in OnlineValues}

Environments ==
    {Environment(u, t, Unset) : u \in {Unset, ModelUrl}, t \in Thresholds}

InitRequests ==
    /\ proc = "boot"
    /\ scalerData = NoScalerData
    /\ pc    = [r \in Slots |-> "idle"]
    /\ route = [r \in Slots |-> ""]
    /\ query = [r \in Slots |-> NoQuery]
    /\ sent  = [r \in Slots |-> <<>>]
    /\ reply = [r \in Slots |-> NotSettled]
    /\ resp  = [r \in Slots |-> NoResponse]

(***************************************************************************)
(* SpecPipeline: one request through the whole pipeline, under every       *)
(* scaler artifact, environment, query and backend settlement.             *)
(***************************************************************************)
InitPipeline ==
    /\ scalerFile \in ScalerArtifacts
    /\ env \in Environments
    /\ httpsBound \in BOOLEAN
    /\ axiosStatus \in BOOLEAN
    /\ InitRequests

NextPipeline ==
    \/ Startup
    \/ Root(1)
    \/ Health(1)
    \/ \E q \in Queries : PredictStart(1, q)
    \/ \E rep \in Settlements : PredictResume(1, rep)

SpecPipeline == InitPipeline /\ [][NextPipeline]_vars

(***************************************************************************)
(* Spec: up to MaxReq requests in flight at once.                          *)
(***************************************************************************)
ExampleQuery ==
    Query(Str(<<"1", "0">>), Str(<<"1", ".", "2">>), Str(<<"1">>), Str(<<"1">>),
          Str(<<"0">>))

ServerQueries ==
    {ExampleQuery,
     [ExampleQuery EXCEPT !.pin = Str(<<"2">>)],
     [ExampleQuery EXCEPT !.distance = Str(<<"a", "b", "c">>), !.online = Str(<<"1">>)],
     [ExampleQuery EXCEPT !.online = Absent]}

ServerSettlements ==
    {NetworkError, HttpReply(503, NoBody),
     HttpReply(200, Body(TRUE, <<Output(TRUE, <<Rat(97, 100)>>)>>)),
     HttpReply(200, Body(TRUE, <<Output(TRUE, <<Rat(94, 100)>>)>>)),
     HttpReply(200, Body(TRUE, <<Output(TRUE, <<>>)>>))}

Init ==
    /\ scalerFile \in {MissingFile, GoodFile, ZeroScaleFile}
    /\ env \in {Environment(u, Unset, n) : u \in {Unset, ModelUrl},
                                           n \in {Unset, Production}}
    /\ httpsBound \in BOOLEAN
    /\ axiosStatus \in BOOLEAN
    /\ InitRequests

Next ==
    \/ Startup
    \/ \E r \in Slots : Root(r)
    \/ \E r \in Slots : Health(r)
    \/ \E r \in Slots, q \in ServerQueries : PredictStart(r, q)
    \/ \E r \in Slots, rep \in ServerSettlements : PredictResume(r, rep)

Spec == Init /\ [][Next]_vars
(***************************************************************************)
(* Vocabulary of the properties.                                           *)
(***************************************************************************)
IsPredict(r) == route[r] = "/predict"

Answered(r) == pc[r] = "done"

Zero == [k |-> "num", n |-> 0, d |-> 1]
One  == [k |-> "num", n |-> 1, d |-> 1]

\* A parameter that is a string and does not denote 0 or 1.
OutsideBinary(v) == v.t = "string" /\ Number(v.s) # Zero /\ Number(v.s) # One

\* A parameter that is a string and does not denote a number.
NonNumeric(v) == v.t = "string" /\ ~IsNum(Number(v.s))

Lacking(v) == v.t = "undefined"

InvalidInput(q) ==
    \/ OutsideBinary(q.pin) \/ OutsideBinary(q.chip) \/ OutsideBinary(q.online)
    \/ NonNumeric(q.distance) \/ NonNumeric(q.ratio_to_median)
    \/ Lacking(q.distance) \/ Lacking(q.ratio_to_median)
    \/ Lacking(q.pin) \/ Lacking(q.chip) \/ Lacking(q.online)

ValidationFailed(r) == IsPredict(r) /\ ~QuerySchemaParse(query[r]).success

ValidationPassed(r) == IsPredict(r) /\ QuerySchemaParse(query[r]).success

BackendCallable == httpsBound /\ ~Falsy(env.FRAUD_MODEL_URL) /\ ~NormalizeThrows

\* C1: every /predict request whose pin, chip or online is outside {0,1},
\* whose distance or ratio_to_median is a non-numeric string, or that lacks
\* a required parameter, is answered 400 with the error 'Invalid input
\* parameters' and a non-empty details list.
C1_InvalidInputIsRejected ==
    \A r \in Slots :
        IsPredict(r) /\ InvalidInput(query[r])
        => /\ Answered(r)
           /\ resp[r].status = 400
           /\ resp[r].body.error = "Invalid input parameters"
           /\ resp[r].body.details # <<>>

\* C2: a /predict request whose validation fails never has a backend call
\* issued for it; it is answered 400 with no call made and none settled.
C2_NoBackendCallAfterFailedValidation ==
    \A r \in Slots :
        ValidationFailed(r)
        => /\ sent[r] = <<>>
           /\ reply[r] = NotSettled
           /\ Answered(r)
           /\ resp[r].status = 400

C2_Witness ==
    /\ BackendCallable
    /\ \E r \in Slots : ValidationFailed(r) /\ Answered(r) /\ resp[r].status = 400
    /\ \E r \in Slots : ValidationPassed(r) /\ Len(sent[r]) = 1

\* The backend was unreachable, answered outside 2xx, or answered 2xx with a
\* payload whose outputs are missing or empty or whose outputs[0].data is
\* missing or empty.
BackendFailed(rep) ==
    \/ rep.kind = "network"
    \/ rep.kind = "http" /\ (rep.status < 200 \/ rep.status > 299)
    \/ /\ rep.kind = "http" /\ rep.status >= 200 /\ rep.status <= 299
       /\ \/ ~rep.body.hasOutputs
          \/ rep.body.outputs = <<>>
          \/ ~rep.body.outputs[1].hasData
          \/ rep.body.outputs[1].data = <<>>

\* C3: a validated /predict request whose backend call fails (unreachable,
\* non-2xx, malformed payload) is answered with status 500, never with 200.
C3_BackendFailureGives500 ==
    \A r \in Slots :
        ValidationPassed(r) /\ Answered(r) /\ BackendFailed(reply[r])
        => resp[r].status = 500

\* The threshold C4 speaks of: FRAUD_THRESHOLD's number, 0.95 when it is unset
\* (an empty value counts as unset).
ClaimedThreshold ==
    IF env.FRAUD_THRESHOLD.set /\ env.FRAUD_THRESHOLD.s # <<>>
    THEN Number(env.FRAUD_THRESHOLD.s)
    ELSE [k |-> "num", n |-> 19, d |-> 20]

\* The 2xx reply of request r carries a number as outputs[0].data[0].
HasProbability(r) ==
    /\ reply[r].kind = "http" /\ reply[r].status >= 200 /\ reply[r].status <= 299
    /\ reply[r].body.hasOutputs
    /\ reply[r].body.outputs # <<>>
    /\ reply[r].body.outputs[1].hasData
    /\ reply[r].body.outputs[1].data # <<>>
    /\ IsNum(reply[r].body.outputs[1].data[1])

\* C4: a /predict request that reaches response construction with backend
\* probability p and threshold t is answered 200 with fraud_probability = p
\* and is_fraud true exactly when p > t (false when p = t).
C4_StrictThreshold ==
    \A r \in Slots :
        IsPredict(r) /\ Answered(r) /\ HasProbability(r)
        => LET p == reply[r].body.outputs[1].data[1]
               t == ClaimedThreshold
           IN  /\ resp[r].status = 200
               /\ resp[r].ctype = "json"
               /\ DOMAIN resp[r].body = {"is_fraud", "fraud_probability"}
               /\ resp[r].body.fraud_probability = p
               /\ resp[r].body.is_fraud = (IsNum(t) /\ p.n * t.d > t.n * p.d)

C4_Witness ==
    \E r \in Slots :
        /\ IsPredict(r) /\ Answered(r) /\ HasProbability(r)
        /\ ~env.FRAUD_THRESHOLD.set
        /\ reply[r].body.outputs[1].data[1] = [k |-> "num", n |-> 19, d |-> 20]
        /\ resp[r].status = 200
        /\ resp[r].body.is_fraud = FALSE

\* The request passed validation and then failed: something threw before the
\* await, the awaited call was rejected, or the reply could not be read.
FailedAfterValidation(r) ==
    /\ ValidationPassed(r) /\ Answered(r)
    /\ \/ reply[r] = NotSettled
       \/ Rejected(reply[r])
       \/ ExtractThrows(reply[r].body)

\* C5: a /predict request that fails for a reason other than validation is
\* answered by the registered error handler: status 500 with the JSON body
\* {error: 'Internal server error'} and nothing else.
C5_GenericErrorHandlerAnswers ==
    \A r \in Slots :
        FailedAfterValidation(r)
        => resp[r] = [status |-> 500, ctype |-> "json",
                      body |-> [error |-> "Internal server error"]]

\* C6: every request causes at most one backend call, and requests to / and
\* /health cause none.
C6_AtMostOneBackendCall ==
    \A r \in Slots :
        /\ Len(sent[r]) <= 1
        /\ route[r] \in {"/", "/health"} => sent[r] = <<>> /\ reply[r] = NotSettled

C6_Witness ==
    /\ \E r \in Slots :
          IsPredict(r) /\ Answered(r) /\ Rejected(reply[r]) /\ Len(sent[r]) = 1
    /\ \E r \in Slots : route[r] = "/health" /\ Answered(r) /\ sent[r] = <<>>

\* C7: in every state of the serving process a GET /health can be answered,
\* and it is answered 200 {status: 'healthy'} without a backend call,
\* whatever the backend's configuration and the calls outstanding.
C7_HealthAlwaysHealthy ==
    \A r \in Slots :
        /\ proc = "serving" /\ pc[r] = "idle" => ENABLED Health(r)
        /\ route[r] = "/health"
           => /\ Answered(r)
              /\ resp[r] = [status |-> 200, ctype |-> "json",
                            body |-> [status |-> "healthy"]]
              /\ sent[r] = <<>>
              /\ reply[r] = NotSettled

C7_Witness ==
    /\ Falsy(env.FRAUD_MODEL_URL)
    /\ \E r, o \in Slots :
          /\ route[r] = "/health" /\ Answered(r) /\ resp[r].status = 200
          /\ pc[o] = "await"

\* The artifact exists, parses, and holds at least five means and five
\* scales of which the first five scales are not zero.
ScalerUsable(file) ==
    /\ file.exists /\ file.parses
    /\ file.json.hasMean /\ file.json.hasScale
    /\ Len(file.json.mean) >= 5 /\ Len(file.json.scale) >= 5
    /\ \A i \in 1..5 : file.json.scale[i].k = "num" /\ file.json.scale[i].n # 0

\* C8: the process serves only if the scaler artifact exists, parses, has at
\* least 5 elements in mean and in scale and no zero among the first five
\* scales; otherwise startup fails and no request is ever served.
C8_ServesOnlyWithUsableScaler ==
    /\ proc = "serving" => ScalerUsable(scalerFile)
    /\ ~ScalerUsable(scalerFile) => \A r \in Slots : pc[r] = "idle"

\* The validated values of a query in the order distance, ratio_to_median,
\* pin, chip, online.
ClaimedRaw(q) ==
    << Number(q.distance.s), Number(q.ratio_to_median.s), Number(q.pin.s),
       Number(q.chip.s), Number(q.online.s) >>

\* y is the number (x - m) / s: checked by cross-multiplication.
IsStandardized(y, x, m, s) ==
    /\ IsNum(y)
    /\ y.n * (s.n * x.d * m.d) = y.d * ((x.n * m.d - m.n * x.d) * s.d)

C10_SuspensionBlocksOnlyItself ==
    \A r, o \in Slots :
        /\ pc[r] = "await" /\ pc[o] = "idle"
           => /\ ENABLED Health(o)
              /\ ENABLED Root(o)
              /\ \A q \in ServerQueries : ENABLED PredictStart(o, q)
        /\ /\ Answered(r) /\ Answered(o)
           /\ route[r] = route[o] /\ query[r] = query[o] /\ reply[r] = reply[o]
           => resp[r] = resp[o] /\ sent[r] = sent[o]

C10_Witness ==
    \E r, o \in Slots :
        /\ pc[r] = "await"
        /\ IsPredict(o) /\ Answered(o) /\ reply[o] # NotSettled
        /\ resp[o].status = 200

=============================================================================
